---- MODULE Spec2Model ----
(***************************************************************************)
(* Food purchase tracker: the FoodPurchaseTracker component in its three   *)
(* versions, over one Ledger Store (the food_purchases table).             *)
(*                                                                         *)
(*   tracker "range"  src/unnamed/part_002  ensureDateRangeInDB, reset     *)
(*                                          deletes the rows of the range  *)
(*   tracker "lazy"   src/unnamed/part_001  placeholder rows with id 0,    *)
(*                                          inserted on their first toggle *)
(*   tracker "all"    src/unnamed/part_000  shows every row of the user,   *)
(*                                          reset zeroes both flags        *)
(*                                                                         *)
(* Every await of a handler is one step: the store serves the call and the *)
(* handler's continuation runs up to its next await.  Calls in flight at   *)
(* the same time are served in any order.  Every store call may fail.      *)
(***************************************************************************)
EXTENDS Integers, Sequences, FiniteSets, TLC

\* ------------------------------------------------------------------ bounds
MaxDate == 2        \* calendar days 1..MaxDate
MaxId == 5          \* ids the store can still assign
MaxPending == 2     \* toggle calls in flight at once
MaxRows == 21       \* rows of a row set handed to the summary
MaxClicks == 2      \* what the user does in one visit: edits, clicks, toggles

\* ------------------------------------------------------- program constants
MEAL_PRICE == 40
TOTAL_BUDGET == 1000
NoDate == 0         \* '' : the empty date input
Placeholder == 0    \* id: 0 of a row that is not in the store yet

Dates == 1 .. MaxDate
DateInputs == 0 .. MaxDate
Me == "u1"
NoUser == "none"
Meals == {"breakfast", "dinner"}

VARIABLES
  store,          \* food_purchases: the rows, each with its own id
  nextId,         \* the id the store assigns next
  user,           \* whom supabase.auth.getUser() reports: Me or NoUser
  localStorage,   \* <<startDate, endDate>> items; NoDate when absent
  startDate,      \* useState startDate
  endDate,        \* useState endDate
  foodPurchases,  \* useState foodPurchases: the LedgerView
  loading,        \* useState loading
  mountPc,        \* the mount effect: "pending" until its await resolves
  recPc,          \* ensureDateRangeInDB: idle | select | insert | fetch
  rec,            \* what the running ensureDateRangeInDB has captured
  resetPc,        \* handleReset: idle | store | fetch
  resetRange,     \* the range handleReset has captured
  pending,        \* toggle calls in flight, served in any order
  fetches,        \* fetchFoodPurchases calls in flight: the range each captured
  clicks,         \* how many inputs the user has made
  last,           \* history: what the last step did
  pair,           \* history: a breakfast and a dinner toggle of one row in flight together
  settled,        \* history: reconciles without a report in a row, nothing between
  synced          \* history: view and store agreed, then only toggles that succeeded

vars == <<store, nextId, user, localStorage, startDate, endDate, foodPurchases,
          loading, mountPc, recPc, rec, resetPc, resetRange, pending, fetches,
          clicks, last, pair, settled, synced>>

\* ------------------------------------------------------------- the store
Row(i, d, b, n, u) ==
  [id |-> i, date |-> d, breakfast |-> b, dinner |-> n, user_id |-> u]

\* .select('*').gte('date', s).lte('date', e).eq('user_id', u)
SelectRange(rows, u, s, e) ==
  {r \in rows : r.user_id = u /\ r.date >= s /\ r.date <= e}

\* .select('*').eq('user_id', u)
SelectUser(rows, u) == {r \in rows : r.user_id = u}

\* .order('date', { ascending: true }): the rows ascending by date.  The
\* order of rows of one date is the table's, the same for the same table:
\* here the order of their ids.
RECURSIVE OrderByDate(_)
OrderByDate(rows) ==
  IF rows = {} THEN <<>>
  ELSE LET r == CHOOSE x \in rows : \A y \in rows :
                     x.date < y.date \/ (x.date = y.date /\ x.id <= y.id)
       IN <<r>> \o OrderByDate(rows \ {r})

\* .insert(records): the store gives each record the next id, in order.
RECURSIVE InsertRows(_, _)
InsertRows(records, firstId) ==
  IF records = <<>> THEN {}
  ELSE {Row(firstId, Head(records).date, Head(records).breakfast,
            Head(records).dinner, Head(records).user_id)}
       \cup InsertRows(Tail(records), firstId + 1)

\* The store has ids left for n more rows; when it has not, the insert fails.
CanInsert(n) == nextId + n - 1 <= MaxId

\* .update({ [meal]: value }).eq('id', id)
UpdateRow(rows, id, meal, value) ==
  {IF r.id = id THEN [r EXCEPT !.breakfast = value, !.dinner = value] ELSE r :
     r \in rows}
UpdateMeal(rows, id, meal, value) ==
  {IF r.id = id THEN [r EXCEPT ![meal] = value] ELSE r : r \in rows}

\* .delete().gte('date', s).lte('date', e).eq('user_id', u)
DeleteRange(rows, u, s, e) == rows \ SelectRange(rows, u, s, e)

\* supabase.auth.getUser(): { data: { user }, error }; no user comes with an
\* error.
GetUser == [user |-> user, error |-> (user = NoUser)]

\* ---------------------------------------------------------------- date-fns
\* parse(s, 'yyyy-MM-dd', new Date()): a Date, Invalid Date for ''.
Parse(s) == IF s = NoDate THEN <<"Invalid Date">> ELSE <<"Date", s>>

\* format(date, 'yyyy-MM-dd')
Format(date) == date[2]

\* The days start, start+1, .., end as Dates.
RECURSIVE DaysUp(_, _)
DaysUp(s, e) == IF s > e THEN <<>> ELSE <<Parse(s)>> \o DaysUp(s + 1, e)

\* The days start, start-1, .., end as Dates.
RECURSIVE DaysDown(_, _)
DaysDown(s, e) == IF s < e THEN <<>> ELSE <<Parse(s)>> \o DaysDown(s - 1, e)

\* eachDayOfInterval({ start, end }): what the call can do.  With start after
\* end date-fns 2 throws a RangeError and date-fns 3 returns the days in
\* descending order; the repository does not pin the version.
EachDayOfInterval(start, end) ==
  IF start[1] # "Date" \/ end[1] # "Date"
    THEN {[throws |-> TRUE, days |-> <<>>]}
  ELSE IF start[2] <= end[2]
    THEN {[throws |-> FALSE, days |-> DaysUp(start[2], end[2])]}
  ELSE {[throws |-> TRUE, days |-> <<>>],
        [throws |-> FALSE, days |-> DaysDown(start[2], end[2])]}

\* ------------------------------------------------------------------ helpers
Range(s) == {s[i] : i \in DOMAIN s}

\* The first element of a sequence that passes, as Array.prototype.find.
RECURSIVE FindDate(_, _)
FindDate(data, d) ==
  IF data = <<>> THEN <<>>
  ELSE IF Head(data).date = d THEN <<Head(data)>>
  ELSE FindDate(Tail(data), d)

\* ------------------------------------------------------------ initial state
\* The rows the store holds when the component mounts: any set of days of the
\* user, with flags that differ from day to day, and a row of someone else.
SeedRow(d) == [date |-> d, breakfast |-> (d % 2 = 1), dinner |-> (d >= 2),
               user_id |-> Me]

OtherRow == [date |-> 1, breakfast |-> TRUE, dinner |-> TRUE, user_id |-> "u2"]

RECURSIVE SeedRows(_, _)
SeedRows(D, d) ==
  IF d > MaxDate THEN <<>>
  ELSE (IF d \in D THEN <<SeedRow(d)>> ELSE <<>>) \o SeedRows(D, d + 1)

InitStores ==
  {InsertRows(<<OtherRow>> \o SeedRows(D, 1), 1) : D \in SUBSET Dates}

\* What localStorage holds from an earlier visit.
PersistedRanges == {<<NoDate, NoDate>>, <<1, MaxDate>>, <<MaxDate, 1>>}

\* The run of ensureDateRangeInDB: its range, the days it found missing, and
\* history: ok, every store call of the run succeeded; quiet, the run took no
\* error branch (the select's error is not read); alone, no reset was served
\* while it ran.
NoRec ==
  [s |-> NoDate, e |-> NoDate, new |-> <<>>, ok |-> TRUE, quiet |-> TRUE,
   alone |-> TRUE]
NoRange == <<NoDate, NoDate>>
NoPair == [date |-> NoDate]

\* History, kept by every step.  The view agrees with the store when no call
\* is in flight and every row shown is a row stored; from then on the toggles
\* of stored rows and the updates the store serves with success keep the
\* history, and every other step starts it again.
Sync ==
  synced' = IF Len(pending') > Len(pending)
              THEN synced /\ \A k \in DOMAIN pending' : pending'[k].op = "update"
            ELSE IF last' = "update" THEN synced
            ELSE pending' = <<>> /\ Range(foodPurchases') \subseteq store'

\* No handler has run and no call is in flight.
InitIdle ==
  /\ foodPurchases = <<>>
  /\ recPc = "idle"
  /\ rec = NoRec
  /\ resetPc = "idle"
  /\ resetRange = NoRange
  /\ pending = <<>>
  /\ clicks = 0
  /\ last = "mount"
  /\ pair = NoPair
  /\ settled = 0
  /\ synced = FALSE

\* The component mounts over a store, signed in or not, with or without a
\* persisted range.
InitCommon ==
  /\ store \in InitStores
  /\ nextId = Cardinality(store) + 1
  /\ user \in {Me, NoUser}
  /\ localStorage \in PersistedRanges
  /\ InitIdle

\* ==========================================================================
\* The tracker with a range button: src/unnamed/part_002
\* ==========================================================================
R_Init ==
  /\ InitCommon
  /\ startDate = localStorage[1]
  /\ endDate = localStorage[2]
  /\ loading = FALSE
  /\ mountPc = "pending"
  /\ fetches = <<>>

\* Any step but a step of ensureDateRangeInDB ends a row of reconciles.
Unsettle == settled' = 0

\* An input of the user, and a step the user has no part in.
Click == clicks < MaxClicks /\ clicks' = clicks + 1
NoClick == UNCHANGED clicks

\* useEffect(() => { loadInitialData() }, []): with a persisted range and a
\* user, every row of the user, whatever its date.
R_loadInitialData ==
  /\ NoClick
  /\ UNCHANGED pair
  /\ mountPc = "pending"
  /\ mountPc' = "done"
  /\ \E ok \in BOOLEAN :
       foodPurchases' =
         IF startDate # NoDate /\ endDate # NoDate /\ GetUser.user # NoUser /\ ok
           THEN OrderByDate(SelectUser(store, GetUser.user))
           ELSE foodPurchases
  /\ last' = "step"
  /\ Unsettle
  /\ UNCHANGED <<store, nextId, user, localStorage, startDate, endDate, loading,
                 recPc, rec, resetPc, resetRange, pending, fetches>>
  /\ Sync

\* onChange={(e) => setStartDate(e.target.value)}
R_setStartDate(d) ==
  /\ Click
  /\ UNCHANGED pair
  /\ d # startDate
  /\ startDate' = d
  /\ last' = "step"
  /\ Unsettle
  /\ UNCHANGED <<store, nextId, user, localStorage, endDate, foodPurchases,
                 loading, mountPc, recPc, rec, resetPc, resetRange, pending,
                 fetches>>
  /\ Sync

\* onChange={(e) => setEndDate(e.target.value)}
R_setEndDate(d) ==
  /\ Click
  /\ UNCHANGED pair
  /\ d # endDate
  /\ endDate' = d
  /\ last' = "step"
  /\ Unsettle
  /\ UNCHANGED <<store, nextId, user, localStorage, startDate, foodPurchases,
                 loading, mountPc, recPc, rec, resetPc, resetRange, pending,
                 fetches>>
  /\ Sync

\* dates.filter(date => !existingDates.has(format(date, 'yyyy-MM-dd'))), with
\* existingData null when the select failed.
NewDates(dates, existingData) ==
  LET existingDates == {d.date : d \in existingData}
      Missing(date) == Format(date) \notin existingDates
  IN SelectSeq(dates, Missing)

\* newDates.map(date => ({ date, breakfast: false, dinner: false, user_id }))
NewRecordsChecked(newDates, u) ==
  [i \in DOMAIN newDates |->
     [date |-> Format(newDates[i]), breakfast |-> TRUE, dinner |-> FALSE,
      user_id |-> u]]
NewRecords(newDates, u) ==
  [i \in DOMAIN newDates |->
     [date |-> Format(newDates[i]), breakfast |-> FALSE, dinner |-> FALSE,
      user_id |-> u]]

\* The Select Date Range button (disabled={loading}): ensureDateRangeInDB up
\* to its first await.
R_ensureDateRangeInDB ==
  /\ Click
  /\ UNCHANGED pair
  /\ ~loading
  /\ recPc = "idle"
  /\ IF startDate = NoDate \/ endDate = NoDate
       THEN /\ last' = "ensure_rejected"
            /\ settled' = 0
            /\ UNCHANGED <<loading, recPc, rec>>
       ELSE /\ loading' = TRUE
            /\ recPc' = "select"
            /\ rec' = [NoRec EXCEPT !.s = startDate, !.e = endDate]
            /\ last' = "step"
            /\ settled' = IF settled >= 1 /\ startDate = rec.s /\ endDate = rec.e
                            THEN 1 ELSE 0
  /\ UNCHANGED <<store, nextId, user, localStorage, startDate, endDate,
                 foodPurchases, mountPc, resetPc, resetRange, pending, fetches>>
  /\ Sync

\* ensureDateRangeInDB from getUser to the select of the existing rows.
R_ensureSelect ==
  /\ NoClick
  /\ UNCHANGED pair
  /\ recPc = "select"
  /\ IF GetUser.user = NoUser
       THEN /\ loading' = FALSE
            /\ recPc' = "idle"
            /\ rec' = [rec EXCEPT !.ok = FALSE, !.quiet = FALSE]
            /\ last' = "ensure_unauth"
            /\ settled' = 0
       ELSE \E each \in EachDayOfInterval(Parse(rec.s), Parse(rec.e)) :
              IF each.throws
                THEN /\ recPc' = "idle"
                     /\ rec' = [rec EXCEPT !.ok = FALSE, !.quiet = FALSE]
                     /\ last' = "ensure_threw"
                     /\ settled' = 0
                     /\ UNCHANGED loading
                ELSE \E ok \in BOOLEAN :
                       LET existingData ==
                             IF ok THEN SelectRange(store, GetUser.user, rec.s, rec.e)
                             ELSE {}
                           newDates == NewDates(each.days, existingData)
                       IN /\ rec' = [rec EXCEPT
                                       !.new = [i \in DOMAIN newDates |-> Format(newDates[i])],
                                       !.ok = rec.ok /\ ok]
                          /\ recPc' = IF newDates # <<>> THEN "insert" ELSE "fetch"
                          /\ last' = "ensure_select"
                          /\ settled' = settled
                          /\ UNCHANGED loading
  /\ UNCHANGED <<store, nextId, user, localStorage, startDate, endDate,
                 foodPurchases, mountPc, resetPc, resetRange, pending, fetches>>
  /\ Sync

\* ensureDateRangeInDB: the insert of the missing days' records.
R_ensureInsert ==
  /\ NoClick
  /\ UNCHANGED pair
  /\ recPc = "insert"
  /\ \E ok \in {b \in BOOLEAN : b => CanInsert(Len(rec.new))} :
       LET newRecords == NewRecords([i \in DOMAIN rec.new |-> Parse(rec.new[i])],
                                    GetUser.user)
       IN /\ store' = IF ok THEN store \cup InsertRows(newRecords, nextId) ELSE store
          /\ nextId' = IF ok THEN nextId + Len(newRecords) ELSE nextId
          /\ rec' = [rec EXCEPT !.ok = rec.ok /\ ok, !.quiet = rec.quiet /\ ok]
          /\ settled' = IF ok THEN settled ELSE 0
  /\ recPc' = "fetch"
  /\ last' = "ensure_insert"
  /\ UNCHANGED <<user, localStorage, startDate, endDate, foodPurchases, loading,
                 mountPc, resetPc, resetRange, pending, fetches>>
  /\ Sync

\* ensureDateRangeInDB: await fetchFoodPurchases(), then setLoading(false).
\* fetchFoodPurchases reads the range its render captured, the same one.
R_fetchFoodPurchases ==
  /\ NoClick
  /\ UNCHANGED pair
  /\ recPc = "fetch"
  /\ \E ok \in BOOLEAN :
       LET done == ~GetUser.error /\ ok
       IN /\ foodPurchases' =
               IF done
                 THEN OrderByDate(SelectRange(store, GetUser.user, rec.s, rec.e))
                 ELSE foodPurchases
          /\ rec' = [rec EXCEPT !.ok = rec.ok /\ done, !.quiet = rec.quiet /\ done]
          /\ settled' = IF rec.quiet /\ rec.alone /\ done /\ rec.s <= rec.e
                          THEN (IF settled >= 1 THEN 2 ELSE 1)
                          ELSE 0
  /\ loading' = FALSE
  /\ recPc' = "idle"
  /\ last' = "ensure_done"
  /\ UNCHANGED <<store, nextId, user, localStorage, startDate, endDate, mountPc,
                 resetPc, resetRange, pending, fetches>>
  /\ Sync

\* A toggle call as sent; sibling is history: the row's other flag then.
Other(meal) == IF meal = "breakfast" THEN "dinner" ELSE "breakfast"

Call(op, purchase, index, meal) ==
  [op |-> op, id |-> purchase.id, meal |-> meal, value |-> purchase[meal],
   date |-> purchase.date, user_id |-> purchase.user_id, index |-> index,
   live |-> TRUE, sibling |-> purchase[Other(meal)]]

\* The calls in flight are served in any order: they are kept by row, meal
\* and value, not by the order they were sent in.
CallKey(call) ==
  4 * call.index + (IF call.meal = "dinner" THEN 2 ELSE 0)
    + (IF call.value THEN 1 ELSE 0)

Enqueue(calls, call) ==
  LET n == Cardinality({k \in DOMAIN calls : CallKey(calls[k]) <= CallKey(call)})
  IN SubSeq(calls, 1, n) \o <<call>> \o SubSeq(calls, n + 1, Len(calls))

\* History: the toggle sent while the one call in flight is the toggle of the
\* same row's other meal makes a pair, with the value each of the two sets.
PairWith(call) ==
  IF Len(pending) = 1 /\ pending[1].date = call.date
     /\ pending[1].user_id = call.user_id /\ pending[1].meal # call.meal
    THEN [[date |-> call.date, user_id |-> call.user_id, breakfast |-> FALSE,
           dinner |-> FALSE]
            EXCEPT ![call.meal] = call.value,
                   ![pending[1].meal] = pending[1].value]
    ELSE NoPair

\* purchase[meal] = !purchase[meal] on the row at index
Flip(purchases, index, meal) ==
  [purchases EXCEPT ![index][meal] = ~purchases[index][meal]]

\* A checkbox: handleCheckboxChange up to its await: the flag is flipped in
\* the view and the update of that one column is sent.
R_handleCheckboxChange(index, meal) ==
  /\ Click
  /\ index \in DOMAIN foodPurchases
  /\ Len(pending) < MaxPending
  /\ foodPurchases' = Flip(foodPurchases, index, meal)
  /\ LET call == Call("update", foodPurchases'[index], index, meal)
     IN /\ pending' = Enqueue(pending, call)
        /\ pair' = PairWith(call)
  /\ last' = "step"
  /\ Unsettle
  /\ UNCHANGED <<store, nextId, user, localStorage, startDate, endDate, loading,
                 mountPc, recPc, rec, resetPc, resetRange, fetches>>
  /\ Sync

Without(s, k) == [i \in 1 .. Len(s) - 1 |-> IF i < k THEN s[i] ELSE s[i + 1]]

\* The store serves one of the updates in flight; an error is logged.
R_updateServed(k) ==
  /\ NoClick
  /\ k \in DOMAIN pending
  /\ pending[k].op = "update"
  /\ \E ok \in BOOLEAN :
       /\ store' = IF ok
                     THEN UpdateMeal(store, pending[k].id, pending[k].meal,
                                     pending[k].value)
                     ELSE store
       /\ last' = IF ok THEN "update" ELSE "update_failed"
       /\ pair' = IF ok THEN pair ELSE NoPair
  /\ pending' = Without(pending, k)
  /\ Unsettle
  /\ UNCHANGED <<nextId, user, localStorage, startDate, endDate, foodPurchases,
                 loading, mountPc, recPc, rec, resetPc, resetRange, fetches>>
  /\ Sync

\* The Reset button (disabled={loading}), confirmed: handleReset up to its
\* first await.
R_handleReset ==
  /\ Click
  /\ UNCHANGED pair
  /\ ~loading
  /\ resetPc = "idle"
  /\ resetPc' = "store"
  /\ resetRange' = <<startDate, endDate>>
  /\ last' = "step"
  /\ Unsettle
  /\ UNCHANGED <<store, nextId, user, localStorage, startDate, endDate,
                 foodPurchases, loading, mountPc, recPc, rec, pending, fetches>>
  /\ Sync

\* handleReset from getUser on: the rows of the range are deleted when there
\* is a user (the call's error is not read), then the range and the view are
\* cleared.
R_resetDelete ==
  /\ NoClick
  /\ pair' = NoPair
  /\ resetPc = "store"
  /\ \E ok \in BOOLEAN :
       /\ store' = IF GetUser.user # NoUser /\ ok
                     THEN DeleteRange(store, GetUser.user, resetRange[1],
                                      resetRange[2])
                     ELSE store
       /\ last' = IF GetUser.user = NoUser THEN "reset_unauth"
                  ELSE IF ok THEN "reset_done" ELSE "reset_failed"
  /\ startDate' = NoDate
  /\ endDate' = NoDate
  /\ foodPurchases' = <<>>
  /\ localStorage' = NoRange
  /\ resetPc' = "idle"
  /\ resetRange' = NoRange
  /\ rec' = IF recPc # "idle" THEN [rec EXCEPT !.alone = FALSE] ELSE rec
  /\ Unsettle
  /\ UNCHANGED <<nextId, user, loading, mountPc, recPc, pending, fetches>>
  /\ Sync

R_Next ==
  \/ R_loadInitialData
  \/ \E d \in DateInputs : R_setStartDate(d)
  \/ \E d \in DateInputs : R_setEndDate(d)
  \/ R_ensureDateRangeInDB
  \/ R_ensureSelect
  \/ R_ensureInsert
  \/ R_fetchFoodPurchases
  \/ \E i \in 1 .. MaxId, meal \in Meals : R_handleCheckboxChange(i, meal)
  \/ \E k \in 1 .. MaxPending : R_updateServed(k)
  \/ R_handleReset
  \/ R_resetDelete

Spec == R_Init /\ [][R_Next]_vars

\* ==========================================================================
\* The tracker with placeholder rows: src/unnamed/part_001
\* ==========================================================================
\* A column the insert does not name gets the table's default.
ColumnDefault == FALSE

\* useEffect(() => { ... }, [startDate, endDate]): with both dates set they
\* are persisted and fetchFoodPurchases is called, which sets loading.
L_effect(s, e) ==
  IF s # NoDate /\ e # NoDate
    THEN /\ localStorage' = <<s, e>>
         /\ fetches' = Append(fetches, <<s, e>>)
         /\ loading' = TRUE
    ELSE UNCHANGED <<localStorage, fetches, loading>>

\* The state after the first render and its effect.
L_Init ==
  /\ InitCommon
  /\ startDate = localStorage[1]
  /\ endDate = localStorage[2]
  /\ mountPc = "done"
  /\ LET set == localStorage # NoRange
     IN /\ loading = set
        /\ fetches = IF set THEN <<localStorage>> ELSE <<>>

\* The calls in flight for a row object the view no longer holds.
Orphaned(calls) == [k \in DOMAIN calls |-> [calls[k] EXCEPT !.live = FALSE]]

\* onChange={(e) => setStartDate(e.target.value)}, and the effect.
L_setStartDate(d) ==
  /\ Click
  /\ UNCHANGED pair
  /\ d # startDate
  /\ startDate' = d
  /\ L_effect(d, endDate)
  /\ last' = "step"
  /\ UNCHANGED <<store, nextId, user, endDate, foodPurchases, mountPc, recPc,
                 rec, resetPc, resetRange, pending, settled>>
  /\ Sync

\* onChange={(e) => setEndDate(e.target.value)}, and the effect.
L_setEndDate(d) ==
  /\ Click
  /\ UNCHANGED pair
  /\ d # endDate
  /\ endDate' = d
  /\ L_effect(startDate, d)
  /\ last' = "step"
  /\ UNCHANGED <<store, nextId, user, startDate, foodPurchases, mountPc, recPc,
                 rec, resetPc, resetRange, pending, settled>>
  /\ Sync

\* dates.map(date => data.find(p => p.date === format(date)) || placeholder)
Purchases(dates, data, u) ==
  [i \in DOMAIN dates |->
     LET formattedDate == Format(dates[i])
         existingPurchase == FindDate(data, formattedDate)
     IN IF existingPurchase # <<>> THEN existingPurchase[1]
        ELSE Row(Placeholder, formattedDate, FALSE, FALSE, u)]

\* One fetchFoodPurchases in flight runs from getUser to its end.
L_fetchServed(k) ==
  /\ NoClick
  /\ UNCHANGED pair
  /\ k \in DOMAIN fetches
  /\ fetches' = Without(fetches, k)
  /\ LET s == fetches[k][1]
         e == fetches[k][2]
     IN IF GetUser.error
          THEN /\ loading' = FALSE
               /\ last' = "fetch_unauth"
               /\ UNCHANGED <<foodPurchases, pending>>
          ELSE \E ok \in BOOLEAN :
                 IF ~ok
                   THEN /\ loading' = FALSE
                        /\ last' = "fetch_failed"
                        /\ UNCHANGED <<foodPurchases, pending>>
                   ELSE \E each \in EachDayOfInterval(Parse(s), Parse(e)) :
                          IF each.throws
                            THEN /\ last' = "fetch_threw"
                                 /\ UNCHANGED <<foodPurchases, pending, loading>>
                            ELSE /\ foodPurchases' =
                                      Purchases(each.days,
                                                OrderByDate(SelectRange(store, GetUser.user, s, e)),
                                                GetUser.user)
                                 /\ pending' = Orphaned(pending)
                                 /\ loading' = FALSE
                                 /\ last' = "fetch_done"
  /\ UNCHANGED <<store, nextId, user, localStorage, startDate, endDate, mountPc,
                 recPc, rec, resetPc, resetRange, settled>>
  /\ Sync

\* A checkbox: handleCheckboxChange up to its await.  A placeholder row is
\* inserted with its date, the toggled column and its user; a stored row has
\* the toggled column updated.
L_handleCheckboxChange(index, meal) ==
  /\ Click
  /\ index \in DOMAIN foodPurchases
  /\ Len(pending) < MaxPending
  /\ foodPurchases' = Flip(foodPurchases, index, meal)
  /\ LET purchase == foodPurchases'[index]
         call == Call(IF purchase.id = Placeholder THEN "insert" ELSE "update",
                      purchase, index, meal)
     IN /\ pending' = Enqueue(pending, call)
        /\ pair' = PairWith(call)
  /\ last' = "step"
  /\ UNCHANGED <<store, nextId, user, localStorage, startDate, endDate, loading,
                 mountPc, recPc, rec, resetPc, resetRange, fetches, settled>>
  /\ Sync

\* .insert({ date, [meal]: value, user_id })
InsertedRow(call, id) ==
  [[id |-> id, date |-> call.date, breakfast |-> ColumnDefault,
    dinner |-> ColumnDefault, user_id |-> call.user_id]
     EXCEPT ![call.meal] = call.value]

\* The store serves one of the inserts in flight; on success the row object
\* takes the id the store gave: purchase.id = data[0].id.
L_insertServed(k) ==
  /\ NoClick
  /\ k \in DOMAIN pending
  /\ pending[k].op = "insert"
  /\ \E ok \in {b \in BOOLEAN : b => CanInsert(1)} :
       IF ok
         THEN /\ store' = store \cup {InsertedRow(pending[k], nextId)}
              /\ nextId' = nextId + 1
              /\ foodPurchases' =
                   IF pending[k].live
                     THEN [foodPurchases EXCEPT ![pending[k].index].id = nextId]
                     ELSE foodPurchases
              /\ last' = "insert"
              /\ UNCHANGED pair
         ELSE /\ last' = "insert_failed"
              /\ pair' = NoPair
              /\ UNCHANGED <<store, nextId, foodPurchases>>
  /\ pending' = Without(pending, k)
  /\ UNCHANGED <<user, localStorage, startDate, endDate, loading, mountPc, recPc,
                 rec, resetPc, resetRange, fetches, settled>>
  /\ Sync

\* The store serves one of the updates in flight; an error is logged.
L_updateServed(k) ==
  /\ NoClick
  /\ k \in DOMAIN pending
  /\ pending[k].op = "update"
  /\ \E ok \in BOOLEAN :
       /\ store' = IF ok
                     THEN UpdateMeal(store, pending[k].id, pending[k].meal,
                                     pending[k].value)
                     ELSE store
       /\ last' = IF ok THEN "update" ELSE "update_failed"
       /\ pair' = IF ok THEN pair ELSE NoPair
  /\ pending' = Without(pending, k)
  /\ UNCHANGED <<nextId, user, localStorage, startDate, endDate, foodPurchases,
                 loading, mountPc, recPc, rec, resetPc, resetRange, fetches,
                 settled>>
  /\ Sync

\* The Reset button, confirmed: the dates, the view and the persisted dates
\* are cleared; no store call is made.
L_handleReset ==
  /\ Click
  /\ UNCHANGED pair
  /\ startDate' = NoDate
  /\ endDate' = NoDate
  /\ foodPurchases' = <<>>
  /\ localStorage' = NoRange
  /\ pending' = Orphaned(pending)
  /\ last' = "reset_done"
  /\ UNCHANGED <<store, nextId, user, loading, mountPc, recPc, rec, resetPc,
                 resetRange, fetches, settled>>
  /\ Sync

L_Next ==
  \/ \E d \in DateInputs : L_setStartDate(d)
  \/ \E d \in DateInputs : L_setEndDate(d)
  \/ \E k \in 1 .. MaxClicks + 1 : L_fetchServed(k)
  \/ \E i \in 1 .. MaxDate, meal \in Meals : L_handleCheckboxChange(i, meal)
  \/ \E k \in 1 .. MaxPending : L_insertServed(k)
  \/ \E k \in 1 .. MaxPending : L_updateServed(k)
  \/ L_handleReset

SpecLazy == L_Init /\ [][L_Next]_vars

\* ==========================================================================
\* The tracker of every row of the user: src/unnamed/part_000
\* ==========================================================================
\* The state after the first render and its effect: fetchFoodPurchases is in
\* flight and loading is true.
A_Init ==
  /\ InitCommon
  /\ startDate = NoDate
  /\ endDate = NoDate
  /\ loading = TRUE
  /\ mountPc = "done"
  /\ fetches = <<NoRange>>

\* One fetchFoodPurchases in flight runs from getUser to its end: every row
\* of the user by date; the range shown is the first and the last date.
A_fetchServed(k) ==
  /\ NoClick
  /\ UNCHANGED pair
  /\ k \in DOMAIN fetches
  /\ fetches' = Without(fetches, k)
  /\ \E ok \in BOOLEAN :
       LET data == OrderByDate(SelectUser(store, GetUser.user))
       IN IF ~GetUser.error /\ ok /\ Len(data) > 0
            THEN /\ foodPurchases' = data
                 /\ startDate' = data[1].date
                 /\ endDate' = data[Len(data)].date
                 /\ last' = "fetch_done"
            ELSE /\ last' = IF GetUser.error THEN "fetch_unauth"
                            ELSE IF ok THEN "fetch_empty" ELSE "fetch_failed"
                 /\ UNCHANGED <<foodPurchases, startDate, endDate>>
  /\ loading' = FALSE
  /\ UNCHANGED <<store, nextId, user, localStorage, mountPc, recPc, rec, resetPc,
                 resetRange, pending, settled>>
  /\ Sync

\* A checkbox (the table is not rendered while loading): handleCheckboxChange
\* up to its await.
A_handleCheckboxChange(index, meal) ==
  /\ Click
  /\ ~loading
  /\ index \in DOMAIN foodPurchases
  /\ Len(pending) < MaxPending
  /\ foodPurchases' = Flip(foodPurchases, index, meal)
  /\ LET call == Call("update", foodPurchases'[index], index, meal)
     IN /\ pending' = Enqueue(pending, call)
        /\ pair' = PairWith(call)
  /\ last' = "step"
  /\ UNCHANGED <<store, nextId, user, localStorage, startDate, endDate, loading,
                 mountPc, recPc, rec, resetPc, resetRange, fetches, settled>>
  /\ Sync

\* The store serves one of the updates in flight; an error is logged.
A_updateServed(k) ==
  /\ NoClick
  /\ k \in DOMAIN pending
  /\ \E ok \in BOOLEAN :
       /\ store' = IF ok
                     THEN UpdateMeal(store, pending[k].id, pending[k].meal,
                                     pending[k].value)
                     ELSE store
       /\ last' = IF ok THEN "update" ELSE "update_failed"
       /\ pair' = IF ok THEN pair ELSE NoPair
  /\ pending' = Without(pending, k)
  /\ UNCHANGED <<nextId, user, localStorage, startDate, endDate, foodPurchases,
                 loading, mountPc, recPc, rec, resetPc, resetRange, fetches,
                 settled>>
  /\ Sync

\* .update({ breakfast: false, dinner: false }).eq('user_id', u)
ResetBreakfastOnly(rows, u) ==
  {IF r.user_id = u THEN [r EXCEPT !.breakfast = FALSE] ELSE r : r \in rows}
ResetMeals(rows, u) ==
  {IF r.user_id = u THEN [r EXCEPT !.breakfast = FALSE, !.dinner = FALSE]
   ELSE r : r \in rows}

\* The Reset button (not rendered while loading), confirmed: handleReset up
\* to its first await.
A_handleReset ==
  /\ Click
  /\ UNCHANGED pair
  /\ ~loading
  /\ resetPc = "idle"
  /\ resetPc' = "store"
  /\ last' = "step"
  /\ UNCHANGED <<store, nextId, user, localStorage, startDate, endDate,
                 foodPurchases, loading, mountPc, recPc, rec, resetRange,
                 pending, fetches, settled>>
  /\ Sync

\* handleReset from getUser on: with a user, both flags of every row of the
\* user are set to false; on success the rows are fetched again.
A_resetUpdate ==
  /\ NoClick
  /\ pair' = NoPair
  /\ resetPc = "store"
  /\ resetPc' = "idle"
  /\ IF GetUser.user = NoUser
       THEN /\ last' = "reset_unauth"
            /\ UNCHANGED <<store, fetches, loading>>
       ELSE \E ok \in BOOLEAN :
              IF ok
                THEN /\ store' = ResetMeals(store, GetUser.user)
                     /\ fetches' = Append(fetches, NoRange)
                     /\ loading' = TRUE
                     /\ last' = "reset_done"
                ELSE /\ last' = "reset_failed"
                     /\ UNCHANGED <<store, fetches, loading>>
  /\ UNCHANGED <<nextId, user, localStorage, startDate, endDate, foodPurchases,
                 mountPc, recPc, rec, resetRange, pending, settled>>
  /\ Sync

A_Next ==
  \/ \E k \in 1 .. MaxClicks + 1 : A_fetchServed(k)
  \/ \E i \in 1 .. MaxId, meal \in Meals : A_handleCheckboxChange(i, meal)
  \/ \E k \in 1 .. MaxPending : A_updateServed(k)
  \/ A_handleReset
  \/ A_resetUpdate

SpecAll == A_Init /\ [][A_Next]_vars

\* ==========================================================================
\* The summary cards: src/unnamed/part_002, lines 23-28
\* ==========================================================================
\* foodPurchases.reduce((total, purchase) =>
\*   total + (purchase.breakfast ? 1 : 0) + (purchase.dinner ? 1 : 0), 0)
RECURSIVE Reduce(_, _)
Reduce(purchases, total) ==
  IF purchases = <<>> THEN total
  ELSE Reduce(Tail(purchases),
              total + (IF Head(purchases).breakfast THEN 1 ELSE 0)
                    + (IF Head(purchases).dinner THEN 1 ELSE 0))

\* foodPurchases.filter((p) => p.breakfast).length
totalBreakfasts == Len(SelectSeq(foodPurchases, LAMBDA p : p.breakfast))

totalCheckboxCount == Reduce(foodPurchases, 0)

totalPrice == totalCheckboxCount * MEAL_PRICE

moneyRemaining == TOTAL_BUDGET - totalPrice

\* The row sets the summary is computed over: up to MaxDate days with any
\* flags, or up to MaxRows days with both meals taken, in any rotation.
AllTaken(purchases) ==
  \A i \in DOMAIN purchases : purchases[i].breakfast /\ purchases[i].dinner

S_Init ==
  /\ InitIdle
  /\ store = {}
  /\ nextId = 1
  /\ user = Me
  /\ localStorage = NoRange
  /\ startDate = NoDate
  /\ endDate = NoDate
  /\ loading = FALSE
  /\ mountPc = "done"
  /\ fetches = <<>>

\* setFoodPurchases with one more day after the days in their order.
S_addRow(b, n) ==
  /\ NoClick
  /\ Len(foodPurchases) < MaxRows
  /\ \A i \in DOMAIN foodPurchases : foodPurchases[i].date = i
  /\ \/ Len(foodPurchases) < MaxDate
     \/ AllTaken(foodPurchases) /\ b /\ n
  /\ foodPurchases' =
       Append(foodPurchases,
              Row(Len(foodPurchases) + 1, Len(foodPurchases) + 1, b, n, Me))
  /\ last' = "rows"
  /\ UNCHANGED <<store, nextId, user, localStorage, startDate, endDate, loading,
                 mountPc, recPc, rec, resetPc, resetRange, pending, fetches,
                 pair, settled>>
  /\ Sync

\* setFoodPurchases with the same rows in another order.
S_rotate ==
  /\ NoClick
  /\ Len(foodPurchases) >= 2
  /\ foodPurchases' = Append(Tail(foodPurchases), Head(foodPurchases))
  /\ last' = "rotated"
  /\ UNCHANGED <<store, nextId, user, localStorage, startDate, endDate, loading,
                 mountPc, recPc, rec, resetPc, resetRange, pending, fetches,
                 pair, settled>>
  /\ Sync

S_Next ==
  \/ \E b, n \in BOOLEAN : S_addRow(b, n)
  \/ S_rotate

SpecSum == S_Init /\ [][S_Next]_vars

\* ==========================================================================
\* The claims
\* ==========================================================================
\* The dates of the rows of a view, in the view's order.
DatesOf(purchases) == [i \in DOMAIN purchases |-> purchases[i].date]

\* The run of ensureDateRangeInDB that ended last made every store call with
\* success, for a user, and no reset was served while it ran.
Reconciled ==
  last = "ensure_done" /\ rec.ok /\ rec.alone

\* C1: when ensureDateRangeInDB followed by fetchFoodPurchases completes for
\* a range s <= e and a user, every store call of the run having succeeded and
\* no reset of the session having been served meanwhile, the dates of
\* foodPurchases are s, s+1, .., e: every day of the range once, ascending.
C1_ReconcileCoversRange ==
  (Reconciled /\ rec.s <= rec.e)
    => DatesOf(foodPurchases) = [i \in 1 .. (rec.e - rec.s + 1) |-> rec.s + i - 1]

\* C2: ensureDateRangeInDB invoked again right after a run of it for the
\* same range s <= e, neither run having reported an error and nothing else
\* having happened since the first run ended, inserts nothing and leaves the
\* view as the first run left it: from the end of the first run to the end of
\* the second neither the store nor foodPurchases changes.
C2_ReconcileIdempotent ==
  [][(settled >= 1 /\ settled' >= 1)
       => (store' = store /\ foodPurchases' = foodPurchases)]_vars

\* C3: the store holds at most one row for a user and a date.
C3_OneRowPerDay ==
  \A r1, r2 \in store :
    (r1.user_id = r2.user_id /\ r1.date = r2.date) => r1 = r2

\* C4: a step of ensureDateRangeInDB removes and changes no row of the store,
\* and every row it adds has a new id, both flags false and the user of the
\* session.
C4_ReconcileFrame ==
  [][recPc' # recPc
       => /\ store \subseteq store'
          /\ \A r \in store' \ store :
               /\ r.id \notin {x.id : x \in store}
               /\ ~r.breakfast /\ ~r.dinner
               /\ r.user_id = user]_vars

\* A run over days 1..MaxDate has ended that found the last day only, with
\* its flag set, and inserted the days before it: the view shows the new rows
\* first and the old row, with its id and its flag, last.
C4_Witness ==
  /\ Reconciled /\ rec.s = 1 /\ rec.e = MaxDate
  /\ Len(rec.new) = MaxDate - 1
  /\ Len(foodPurchases) = MaxDate
  /\ foodPurchases[MaxDate].dinner
  /\ foodPurchases[MaxDate].id < foodPurchases[1].id
  /\ Range(foodPurchases) \subseteq store

\* C5: an insert of a placeholder row that the store serves adds one row with
\* the toggled flag at its new value and the other flag at the value the row
\* had in the view when the checkbox was toggled, and the row of the view, if
\* the view still holds it, takes the id of the new row.
C5_InsertCarriesBothFlags ==
  [][last' = "insert"
       => \E k \in DOMAIN pending :
            LET call == pending[k]
            IN /\ call.op = "insert"
               /\ pending' = Without(pending, k)
               /\ \E r \in store' \ store :
                    /\ store' = store \cup {r}
                    /\ r.date = call.date
                    /\ r[call.meal] = call.value
                    /\ r[Other(call.meal)] = call.sibling
                    /\ call.live => foodPurchases'[call.index].id = r.id]_vars

\* C6: an update of a toggle that the store serves changes, on the row with
\* the id of the call, the named flag and nothing else, and no other row; no
\* row is added or removed.
C6_UpdateOnlyNamedFlag ==
  [][last' = "update"
       => \E k \in DOMAIN pending :
            LET call == pending[k]
            IN /\ pending' = Without(pending, k)
               /\ Cardinality(store') = Cardinality(store)
               /\ \A r \in store :
                    \E q \in store' :
                      /\ q.id = r.id /\ q.date = r.date /\ q.user_id = r.user_id
                      /\ q[Other(call.meal)] = r[Other(call.meal)]
                      /\ q[call.meal] = IF r.id = call.id THEN call.value
                                        ELSE r[call.meal]]_vars

\* The store has served the update of breakfast on the row of the last day,
\* whose dinner flag was and is set.
C6_Witness ==
  /\ last = "update"
  /\ \E r \in store :
       r.user_id = Me /\ r.date = MaxDate /\ r.dinner
       /\ r.breakfast # SeedRow(MaxDate).breakfast

\* C7: once a breakfast toggle and a dinner toggle of one row that were in
\* flight together have both been served with success, the store holds a row
\* of that user and date with both flags as the two toggles set them.
C7_BothFlagsStored ==
  (pair # NoPair /\ pending = <<>>)
    => \E r \in store :
         /\ r.user_id = pair.user_id /\ r.date = pair.date
         /\ r.breakfast = pair.breakfast /\ r.dinner = pair.dinner

\* C8: the count is the number of set breakfast flags plus the number of set
\* dinner flags of the rows, whatever their order; the price is 40 times the
\* count and the remainder 1000 less the price, which may be negative; no
\* rows give 0, 0 and 1000, and 20 days with both meals 40, 1600 and -600.
C8_Summary ==
  LET n == Cardinality({i \in DOMAIN foodPurchases : foodPurchases[i].breakfast})
           + Cardinality({i \in DOMAIN foodPurchases : foodPurchases[i].dinner})
  IN /\ totalCheckboxCount = n
     /\ totalPrice = 40 * n
     /\ moneyRemaining = 1000 - 40 * n
     /\ foodPurchases = <<>>
          => totalCheckboxCount = 0 /\ totalPrice = 0 /\ moneyRemaining = 1000
     /\ (Len(foodPurchases) = 20 /\ AllTaken(foodPurchases))
          => totalCheckboxCount = 40 /\ totalPrice = 1600
             /\ moneyRemaining = -600

\* Twenty days with both meals, in another order than they were added, and
\* the budget is exceeded.
C8_Witness ==
  /\ Len(foodPurchases) = 20 /\ AllTaken(foodPurchases)
  /\ foodPurchases[1].date # 1
  /\ moneyRemaining < 0

\* C9: when handleReset completes for a user, the store is left with no row
\* of the user dated in the range the reset captured, every other row stays
\* as it was, and the dates and the view are cleared.
C9_ResetDeletesRange ==
  [][last' \in {"reset_done", "reset_failed"}
       => /\ \A r \in store' :
               ~(r.user_id = user /\ r.date >= resetRange[1]
                 /\ r.date <= resetRange[2])
          /\ \A r \in store :
               (r.user_id # user \/ r.date < resetRange[1]
                \/ r.date > resetRange[2]) => r \in store'
          /\ store' \subseteq store
          /\ startDate' = NoDate /\ endDate' = NoDate
          /\ foodPurchases' = <<>>]_vars

\* C10: when handleReset's update is served with success for a user, every
\* row of the user, so every row of the range shown, has both flags false and
\* its id and date as before, every other row is as it was, and no row is
\* added or removed.
C10_ResetZeroesFlags ==
  [][last' = "reset_done"
       => /\ Cardinality(store') = Cardinality(store)
          /\ \A r \in store :
               \E q \in store' :
                 /\ q.id = r.id /\ q.date = r.date /\ q.user_id = r.user_id
                 /\ IF r.user_id = user
                      THEN ~q.breakfast /\ ~q.dinner
                      ELSE q = r]_vars

\* The reset's update has been served: the view still shows a dinner, the
\* store holds rows of the user and none of them with a flag set.
C10_Witness ==
  /\ last = "reset_done"
  /\ \E i \in DOMAIN foodPurchases :
       foodPurchases[i].dinner /\ foodPurchases[i].breakfast
  /\ \E r \in store : r.user_id = Me
  /\ \A r \in store : r.user_id = Me => ~r.breakfast /\ ~r.dinner

\* C11: ensureDateRangeInDB over a range with no start or no end, or with its
\* start after its end, ends before any call to the store: the run issues no
\* select and no insert, and the store and foodPurchases stay as they were.
C11_InvalidRangeRejected ==
  [][/\ last' = "ensure_rejected"
          => /\ recPc' = "idle"
             /\ store' = store /\ foodPurchases' = foodPurchases
     /\ (recPc # "idle" /\ recPc' # recPc /\ rec.s > rec.e)
          => /\ recPc' = "idle"
             /\ last' \notin {"ensure_select", "ensure_insert", "ensure_done"}
             /\ store' = store /\ foodPurchases' = foodPurchases]_vars

\* C12: when a store call of a run of ensureDateRangeInDB has failed (the
\* select of the existing rows, the insert or the final fetch), the run ends
\* having reported an error and foodPurchases is left as it was: the rows
\* fetched after a failure are not shown.
C12_FailureKeepsView ==
  [][(last' = "ensure_done" /\ ~rec'.ok)
       => (~rec'.quiet /\ foodPurchases' = foodPurchases)]_vars

\* C13: a store call of a toggle or of a reset that fails does not leave the
\* handler completing as it does on success.  A failed update or insert of a
\* toggle takes the handler's error branch, which is all that tells it from a
\* success; a reset whose call failed must not go on to clear the dates, the
\* view and the persisted range as a reset that succeeded does.
C13_NoSilentFailure ==
  [][last' = "reset_failed"
       => /\ startDate' = startDate /\ endDate' = endDate
          /\ foodPurchases' = foodPurchases
          /\ localStorage' = localStorage]_vars

\* C14: with no user signed in no step calls the store, and a run of
\* ensureDateRangeInDB or of handleReset that finds no user ends with the
\* view and the dates as they were.
C14_NoUserAborts ==
  [][user = NoUser
       => /\ store' = store
          /\ last' \in {"ensure_unauth", "reset_unauth"}
               => /\ foodPurchases' = foodPurchases
                  /\ startDate' = startDate /\ endDate' = endDate]_vars

\* C15: loading returns to false after every run of ensureDateRangeInDB,
\* failed, rejected or not.  Only a step of a run sets loading to false, so
\* this is: whenever loading is true a run is still under way; loading is
\* never left true with no run to clear it and the buttons disabled for good.
C15_LoadingReturns ==
  loading => recPc # "idle"

\* C16: whenever both dates are set, the start not after the end, and
\* foodPurchases is not empty, the dates of foodPurchases are startDate,
\* startDate+1, .., endDate: one row for every day of the range, ascending,
\* and no row of another day.
C16_ViewIsActiveRange ==
  (startDate # NoDate /\ endDate # NoDate /\ startDate <= endDate
   /\ foodPurchases # <<>>)
    => DatesOf(foodPurchases)
         = [i \in 1 .. (endDate - startDate + 1) |-> startDate + i - 1]

\* C17: after toggles of stored rows whose updates the store has all served
\* with success, in whatever order, once no call is in flight every row of
\* the view is a row of the store: breakfast and dinner shown are breakfast
\* and dinner stored.
C17_ViewStoreConverge ==
  (synced /\ pending = <<>>) => Range(foodPurchases) \subseteq store

====
